---- MODULE Spec2Model ----
(***************************************************************************)
(* Model of src/main.cpp: an in-memory tree of elements (Partition, Folder, *)
(* File, Shortcut) with case-insensitive sibling names, a lazily cached     *)
(* folder size, a capacity check at file creation, weak-reference shortcuts *)
(* and per-type instance counters.                                          *)
(*                                                                          *)
(* Size is `unsigned` (32 bits).  TLC's integers stop at 2^31-1, so every   *)
(* Size of the model is counted in units of 16 bytes: the capacity          *)
(* 10'000 bytes is 625 units and 2^32 bytes is 2^28 units.  All sizes the   *)
(* model feeds to the program are multiples of 16 bytes, for which          *)
(* arithmetic modulo 2^32 on bytes is arithmetic modulo 2^28 on units.      *)
(***************************************************************************)
EXTENDS Integers, Sequences, FiniteSets, TLC

\* ---------------------------------------------------------------- bounds
\* number of heap cells besides the partition
MaxElems == 3

\* ------------------------------------------------------ program constants
\* 2^32 bytes (Size = unsigned), in 16-byte units
SizeModulus == 268435456
\* 10'000_bytes, in 16-byte units
Capacity == 625

\* ------------------------------------------------------------- input sets
Names == { <<>>, <<"f">>, <<"F">>, <<"g">> }
\* 0, 4000 and 6000 bytes
FileSizes == { 0, 250, 375 }

\* -------------------------------------------------------------- the heap
\* An object's address is the sequence of keys that leads to it from the
\* partition: elements are never moved or renamed, so an object keeps it for
\* life.  heap maps the addresses of the live objects to their fields.
nullptr == << <<>> >>
nullopt == {}
NoException == "none"

\* the fields of the four classes, with the defaults of those a class lacks;
\* target_ is the weak_ptr: { address } while the control block it shares
\* still has an owner, {} once it has expired
NoElement ==
  [ type |-> "None", name_ |-> <<>>, parent_ |-> nullptr, size_ |-> 0,
    children_ |-> <<>>, computedSize_ |-> nullopt, target_ |-> {} ]

\* heap and count are the program's state; exception, result, out and erased
\* record what the last call threw, returned, printed and erased from a
\* folder's children_
VARIABLES heap, count, exception, result, out, erased

vars == << heap, count, exception, result, out, erased >>

\* Counter<T>::Counter and Counter<T>::~Counter
CounterInc(c, T) == [c EXCEPT ![T] = @ + 1]
CounterDec(c, T) == [c EXCEPT ![T] = @ - 1]

\* Partition::getInstance: the function-local static, built on first use
Instance == <<>>

IsFolder(h, e) == e \in DOMAIN h /\ h[e].type \in { "Folder", "Partition" }

Range(f) == { f[k] : k \in DOMAIN f }

\* toupper on the characters the names are made of
Lower == << "a", "b", "c", "d", "e", "f", "g", "h", "i", "j", "k", "l", "m",
            "n", "o", "p", "q", "r", "s", "t", "u", "v", "w", "x", "y", "z" >>
Upper == << "A", "B", "C", "D", "E", "F", "G", "H", "I", "J", "K", "L", "M",
            "N", "O", "P", "Q", "R", "S", "T", "U", "V", "W", "X", "Y", "Z" >>
toupper(ch) ==
  IF \E i \in 1 .. 26 : Lower[i] = ch
  THEN Upper[CHOOSE i \in 1 .. 26 : Lower[i] = ch]
  ELSE ch

\* Folder::keyFromName
keyFromNameVerbatim(name) == name
keyFromName(name) == [ i \in 1 .. Len(name) |-> toupper(name[i]) ]

\* Folder::invalidateSize
RECURSIVE invalidateSize(_, _)
invalidateSizeLocal(h, this) == [h EXCEPT ![this].computedSize_ = nullopt]
invalidateSize(h, this) ==
  LET h1 == [h EXCEPT ![this].computedSize_ = nullopt]
  IN  IF h[this].parent_ # nullptr THEN invalidateSize(h1, h[this].parent_) ELSE h1

\* Shortcut::getSize
Shortcut_getSizeOfTarget(h, this) ==
  IF h[this].target_ = {} THEN 0
  ELSE h[CHOOSE e \in h[this].target_ : TRUE].size_
Shortcut_getSize(h, this) == 0

\* File::getSize
File_getSize(h, this) == h[this].size_

\* Folder::getSize, with the virtual dispatch of element->getSize(); the
\* result is the returned Size and the heap with the caches it has filled
RECURSIVE getSize(_, _), sumChildren(_, _, _)
getSize(h, this) ==
  CASE h[this].type = "File" -> [size |-> File_getSize(h, this), heap |-> h]
    [] h[this].type = "Shortcut" -> [size |-> Shortcut_getSize(h, this), heap |-> h]
    [] OTHER ->
         IF h[this].computedSize_ = nullopt
         THEN LET r == sumChildren(h, Range(h[this].children_), 0)
              IN  [ size |-> r.size,
                    heap |-> [r.heap EXCEPT ![this].computedSize_ = { r.size }] ]
         ELSE [ size |-> CHOOSE v \in h[this].computedSize_ : TRUE, heap |-> h ]

\* the loop of Folder::getSize over children_
sumChildren(h, todo, size) ==
  IF todo = {} THEN [size |-> size, heap |-> h]
  ELSE LET element == CHOOSE e \in todo : TRUE
           r == getSize(h, element)
       IN  sumChildren(r.heap, todo \ { element }, (size + r.size) % SizeModulus)

\* Element::Element (with the Counter<Element> base built before the body
\* and destroyed again when the body throws)
Element_ctorLeakingCount(c, name) ==
  LET c1 == CounterInc(c, "Element")
  IN  IF name = <<>>
      THEN [thrown |-> "invalid name.", count |-> c1]
      ELSE [thrown |-> NoException, count |-> c1]
Element_ctor(c, name) ==
  LET c1 == CounterInc(c, "Element")
  IN  IF name = <<>>
      THEN [thrown |-> "invalid name.", count |-> CounterDec(c1, "Element")]
      ELSE [thrown |-> NoException, count |-> c1]

\* Partition::checkRemainingSize
checkRemainingSizeStrict(h, desiredSize) ==
  LET r == getSize(h, Instance)
  IN  [ thrown |-> IF (Capacity - r.size) % SizeModulus <= desiredSize
                   THEN "capacity overflow." ELSE NoException,
        heap |-> r.heap ]
checkRemainingSize(h, desiredSize) ==
  LET r == getSize(h, Instance)
  IN  [ thrown |-> IF (Capacity - r.size) % SizeModulus < desiredSize
                   THEN "capacity overflow." ELSE NoException,
        heap |-> r.heap ]

\* File::File
File_ctor(h, c, fileName, size, parent) ==
  LET e == Element_ctor(c, fileName)
      c2 == CounterInc(e.count, "File")
      chk == checkRemainingSize(h, size)
  IN  IF e.thrown # NoException
      THEN [thrown |-> e.thrown, heap |-> h, count |-> e.count, object |-> NoElement]
      ELSE IF chk.thrown # NoException
      THEN [ thrown |-> chk.thrown, heap |-> chk.heap,
             count |-> CounterDec(CounterDec(c2, "File"), "Element"),
             object |-> NoElement ]
      ELSE [ thrown |-> NoException, heap |-> chk.heap, count |-> c2,
             object |-> [ NoElement EXCEPT !.type = "File", !.name_ = fileName,
                                           !.parent_ = parent, !.size_ = size ] ]

\* Folder's inherited constructor (using Element::Element)
Folder_ctor(h, c, folderName, parent) ==
  LET e == Element_ctor(c, folderName)
  IN  IF e.thrown # NoException
      THEN [thrown |-> e.thrown, heap |-> h, count |-> e.count, object |-> NoElement]
      ELSE [ thrown |-> NoException, heap |-> h,
             count |-> CounterInc(e.count, "Folder"),
             object |-> [ NoElement EXCEPT !.type = "Folder", !.name_ = folderName,
                                           !.parent_ = parent ] ]

\* Folder::getSharedPtrFromChild
getSharedPtrFromChild(h, this, childName) ==
  { h[this].children_[keyFromName(childName)] }

\* Element::getSharedPtr and its override Partition::getSharedPtr
getSharedPtr(h, this) ==
  IF h[this].type = "Partition" THEN { Instance }
  ELSE getSharedPtrFromChild(h, h[this].parent_, h[this].name_)

\* Shortcut::Shortcut
Shortcut_ctor(h, c, fileName, target, parent) ==
  LET e == Element_ctor(c, fileName)
  IN  IF e.thrown # NoException
      THEN [thrown |-> e.thrown, heap |-> h, count |-> e.count, object |-> NoElement]
      ELSE [ thrown |-> NoException, heap |-> h,
             count |-> CounterInc(e.count, "Shortcut"),
             object |-> [ NoElement EXCEPT !.type = "Shortcut", !.name_ = fileName,
                                           !.parent_ = parent,
                                           !.target_ = getSharedPtr(h, target) ] ]

\* Folder::checkNameAvailability
checkNameAvailability(h, this, elementName) ==
  LET key == keyFromName(elementName)
  IN  [ thrown |-> IF key \in DOMAIN h[this].children_
                   THEN "already exists." ELSE NoException,
        key |-> key ]

\* operator new: the model's heap holds MaxElems objects besides the partition
BadAlloc == "bad_alloc"
HeapFull(h) == Cardinality(DOMAIN h) > MaxElems

\* children_[key].reset(element)
Put(children, key, element) ==
  [ k \in DOMAIN children \cup { key } |-> IF k = key THEN element ELSE children[k] ]

\* Folder::createElement<T>; new is the outcome of T's constructor, which
\* runs only after checkNameAvailability has returned
createElement(h, c, this, elementName, new) ==
  LET a == checkNameAvailability(h, this, elementName)
      element == this \o << a.key >>
  IN  IF a.thrown # NoException
      THEN [thrown |-> a.thrown, heap |-> h, count |-> c]
      ELSE IF new.thrown # NoException
      THEN [thrown |-> new.thrown, heap |-> new.heap, count |-> new.count]
      ELSE IF HeapFull(new.heap)
      THEN [thrown |-> BadAlloc, heap |-> h, count |-> c]
      ELSE [ thrown |-> NoException,
             heap |-> [ p \in DOMAIN new.heap \cup { element } |->
                          IF p = element THEN new.object
                          ELSE IF p = this
                          THEN [ new.heap[p] EXCEPT
                                   !.children_ = Put(@, a.key, element) ]
                          ELSE new.heap[p] ],
             count |-> new.count ]

\* the end of an object's lifetime as its control block shows it: every
\* weak_ptr that shares the block is expired from then on
releaseKeepingWeak(h, e) == [ p \in DOMAIN h \ { e } |-> h[p] ]
release(h, e) ==
  [ p \in DOMAIN h \ { e } |->
      IF h[p].target_ = { e } THEN [h[p] EXCEPT !.target_ = {}] ELSE h[p] ]

\* the destructors run when the last shared_ptr to an element goes away:
\* ~Folder destroys children_ and with it every child, then the Counter
\* bases are destroyed
RECURSIVE destroy(_, _, _), destroyAll(_, _, _)
destroyShallow(h, c, e) ==
  LET T == IF h[e].type = "Partition" THEN "Folder" ELSE h[e].type
  IN  [ heap |-> release(h, e),
        count |-> CounterDec(CounterDec(c, T), "Element") ]
destroy(h, c, e) ==
  LET sub == IF IsFolder(h, e)
             THEN destroyAll(h, c, Range(h[e].children_))
             ELSE [heap |-> h, count |-> c]
      T == IF h[e].type = "Partition" THEN "Folder" ELSE h[e].type
  IN  [ heap |-> release(sub.heap, e),
        count |-> CounterDec(CounterDec(sub.count, T), "Element") ]

destroyAll(h, c, todo) ==
  IF todo = {} THEN [heap |-> h, count |-> c]
  ELSE LET e == CHOOSE x \in todo : TRUE
           r == destroy(h, c, e)
       IN  destroyAll(r.heap, r.count, todo \ { e })

\* children_.erase(key)
Erase(children, key) == [ k \in DOMAIN children \ { key } |-> children[k] ]

\* Element::getAbsoluteName
RECURSIVE getAbsoluteName(_, _)
getAbsoluteName(h, this) ==
  LET leftPart == IF h[this].parent_ # nullptr
                  THEN getAbsoluteName(h, h[this].parent_) \o << "/" >>
                  ELSE <<>>
  IN  leftPart \o h[this].name_

\* target_.lock()
lock(h, target) == IF target = {} THEN nullptr ELSE CHOOSE e \in target : TRUE

\* Folder::createFile
Folder_createFileInvalidating(h, c, this, fileName, size) ==
  LET h1 == invalidateSize(h, this)
  IN  createElement(h1, c, this, fileName, File_ctor(h1, c, fileName, size, this))
Folder_createFile(h, c, this, fileName, size) ==
  LET h1 == IF size # 0 THEN invalidateSize(h, this) ELSE h
  IN  createElement(h1, c, this, fileName, File_ctor(h1, c, fileName, size, this))

\* Folder::createFolder
Folder_createFolder(h, c, this, folderName) ==
  createElement(h, c, this, folderName, Folder_ctor(h, c, folderName, this))

\* Folder::createShortcut
Folder_createShortcut(h, c, this, shortcutName, target) ==
  createElement(h, c, this, shortcutName,
                Shortcut_ctor(h, c, shortcutName, target, this))

\* Folder::removeElement; erased is the element children_.erase has dropped
Folder_removeElement(h, c, this, elementName) ==
  LET key == keyFromName(elementName)
      h1 == invalidateSize(h, this)
      h2 == [h1 EXCEPT ![this].children_ = Erase(@, key)]
      r == destroy(h2, c, h[this].children_[key])
  IN  IF key \notin DOMAIN h[this].children_
      THEN [ thrown |-> "does not exist.", heap |-> h, count |-> c,
             erased |-> NoElement ]
      ELSE [ thrown |-> NoException, heap |-> r.heap, count |-> r.count,
             erased |-> h[h[this].children_[key]] ]

\* Shortcut::onElementDisplayed: the text it prints
Shortcut_onElementDisplayed(h, this) ==
  LET sp == lock(h, h[this].target_)
  IN  << " --> " >> \o
      (IF sp # nullptr THEN getAbsoluteName(h, sp) ELSE << "inexisting element" >>)

Init ==
  /\ heap = [ i \in { Instance } |->
                [ NoElement EXCEPT !.type = "Partition",
                                   !.name_ = << "/", "r", "1" >> ] ]
  /\ count = [ Element |-> 1, File |-> 0, Folder |-> 1, Shortcut |-> 0 ]
  /\ exception = NoException
  /\ result = {}
  /\ out = <<>>
  /\ erased = NoElement

\* a call r.getSize() on a folder of the tree
callGetSize(this) ==
  /\ IsFolder(heap, this)
  /\ LET r == getSize(heap, this)
     IN  /\ heap' = r.heap
         /\ result' = { r.size }
  /\ exception' = NoException
  /\ out' = <<>>
  /\ erased' = NoElement
  /\ UNCHANGED count

\* a call this.createFile(fileName, size), its exception caught as in main
callCreateFile(this, fileName, size) ==
  /\ IsFolder(heap, this)
  /\ LET r == Folder_createFile(heap, count, this, fileName, size)
     IN  /\ r.thrown # BadAlloc
         /\ heap' = r.heap
         /\ count' = r.count
         /\ exception' = r.thrown
  /\ result' = {}
  /\ out' = <<>>
  /\ erased' = NoElement

\* a call this.createFolder(folderName)
callCreateFolder(this, folderName) ==
  /\ IsFolder(heap, this)
  /\ LET r == Folder_createFolder(heap, count, this, folderName)
     IN  /\ r.thrown # BadAlloc
         /\ heap' = r.heap
         /\ count' = r.count
         /\ exception' = r.thrown
  /\ result' = {}
  /\ out' = <<>>
  /\ erased' = NoElement

\* a call this.createShortcut(shortcutName, target) on a live target
callCreateShortcut(this, shortcutName, target) ==
  /\ IsFolder(heap, this)
  /\ target \in DOMAIN heap
  /\ LET r == Folder_createShortcut(heap, count, this, shortcutName, target)
     IN  /\ r.thrown # BadAlloc
         /\ heap' = r.heap
         /\ count' = r.count
         /\ exception' = r.thrown
  /\ result' = {}
  /\ out' = <<>>
  /\ erased' = NoElement

\* a call this.removeElement(elementName)
callRemoveElement(this, elementName) ==
  /\ IsFolder(heap, this)
  /\ LET r == Folder_removeElement(heap, count, this, elementName)
     IN  /\ heap' = r.heap
         /\ count' = r.count
         /\ exception' = r.thrown
         /\ erased' = r.erased
  /\ result' = {}
  /\ out' = <<>>

\* cout << shortcut
callDisplay(this) ==
  /\ this \in DOMAIN heap
  /\ heap[this].type = "Shortcut"
  /\ out' = Shortcut_onElementDisplayed(heap, this)
  /\ exception' = NoException
  /\ result' = {}
  /\ erased' = NoElement
  /\ UNCHANGED << heap, count >>

Next ==
  \/ \E this \in DOMAIN heap : callGetSize(this)
  \/ \E this \in DOMAIN heap, name \in Names, size \in FileSizes :
       callCreateFile(this, name, size)
  \/ \E this \in DOMAIN heap, name \in Names : callCreateFolder(this, name)
  \/ \E this \in DOMAIN heap, name \in Names, target \in DOMAIN heap :
       callCreateShortcut(this, name, target)
  \/ \E this \in DOMAIN heap, name \in Names : callRemoveElement(this, name)
  \/ \E this \in DOMAIN heap : callDisplay(this)

Spec == Init /\ [][Next]_vars

\* the calls that decide names and counts: every name, a file that fills
\* the partition, shortcuts to the partition
NextNames ==
  \/ \E this \in DOMAIN heap, name \in Names :
       callCreateFile(this, name, Capacity)
  \/ \E this \in DOMAIN heap, name \in Names : callCreateFolder(this, name)
  \/ \E this \in DOMAIN heap, name \in Names :
       callCreateShortcut(this, name, Instance)
  \/ \E this \in DOMAIN heap, name \in Names : callRemoveElement(this, name)

SpecNames == Init /\ [][NextNames]_vars

\* the calls that decide what a shortcut resolves to: any target, empty
\* files, names without their case variants on creation
NextShortcuts ==
  \/ \E this \in DOMAIN heap, name \in { <<"f">>, <<"g">> } :
       callCreateFile(this, name, 0)
  \/ \E this \in DOMAIN heap, name \in { <<"f">>, <<"g">> } :
       callCreateFolder(this, name)
  \/ \E this \in DOMAIN heap, name \in { <<"f">>, <<"g">> }, target \in DOMAIN heap :
       callCreateShortcut(this, name, target)
  \/ \E this \in DOMAIN heap, name \in { <<"F">>, <<"g">> } :
       callRemoveElement(this, name)
  \/ \E this \in DOMAIN heap : callDisplay(this)

SpecShortcuts == Init /\ [][NextShortcuts]_vars

\* the calls that decide what a shortcut weighs: any target, a file that
\* fills the partition, getSize
NextShortcutSizes ==
  \/ \E this \in DOMAIN heap : callGetSize(this)
  \/ \E this \in DOMAIN heap, name \in { <<"f">>, <<"g">> } :
       callCreateFile(this, name, Capacity)
  \/ \E this \in DOMAIN heap, name \in { <<"f">>, <<"g">> } :
       callCreateFolder(this, name)
  \/ \E this \in DOMAIN heap, name \in { <<"f">>, <<"g">> }, target \in DOMAIN heap :
       callCreateShortcut(this, name, target)
  \/ \E this \in DOMAIN heap, name \in { <<"f">>, <<"g">> } :
       callRemoveElement(this, name)

SpecShortcutSizes == Init /\ [][NextShortcutSizes]_vars

\* the calls around a file of no size: a file that fills the partition, an
\* empty file, folders, getSize
NextEmptyFiles ==
  \/ \E this \in DOMAIN heap : callGetSize(this)
  \/ \E this \in DOMAIN heap, name \in { <<"f">>, <<"g">> }, size \in { 0, Capacity } :
       callCreateFile(this, name, size)
  \/ \E this \in DOMAIN heap, name \in { <<"f">>, <<"g">> } :
       callCreateFolder(this, name)
  \/ \E this \in DOMAIN heap, name \in { <<"f">>, <<"g">> } :
       callRemoveElement(this, name)

SpecEmptyFiles == Init /\ [][NextEmptyFiles]_vars

\* the calls that decide sizes and capacity: every file size, no shortcut
NextSizes ==
  \/ \E this \in DOMAIN heap : callGetSize(this)
  \/ \E this \in DOMAIN heap, name \in { <<>>, <<"f">>, <<"g">> }, size \in FileSizes :
       callCreateFile(this, name, size)
  \/ \E this \in DOMAIN heap, name \in { <<"f">>, <<"g">> } :
       callCreateFolder(this, name)
  \/ \E this \in DOMAIN heap, name \in { <<"f">>, <<"g">> } :
       callRemoveElement(this, name)

SpecSizes == Init /\ [][NextSizes]_vars

\* ------------------------------------------------------------ properties
\* the elements of the tree below e, e included, by the children_ maps
RECURSIVE Subtree(_, _)
Subtree(h, e) ==
  { e } \cup UNION { Subtree(h, c) : c \in Range(h[e].children_) }

Tree(h) == Subtree(h, Instance)
Folders(h) == { e \in DOMAIN h : IsFolder(h, e) }
Files(h) == { e \in Tree(h) : h[e].type = "File" }

RECURSIVE SumOfSizes(_, _)
SumOfSizes(h, S) ==
  IF S = {} THEN 0
  ELSE LET e == CHOOSE x \in S : TRUE
       IN  h[e].size_ + SumOfSizes(h, S \ { e })

\* the sum of the sizes of the files below e, as a number (no wrap-around)
TrueSize(h, e) == SumOfSizes(h, { x \in Subtree(h, e) : h[x].type = "File" })

\* the value e.getSize() returns when called in h
Returned(h, e) == getSize(h, e).size

\* e and the folders above it, up to the partition
RECURSIVE Ancestors(_, _)
Ancestors(h, e) ==
  IF h[e].parent_ = nullptr THEN { e } ELSE { e } \cup Ancestors(h, h[e].parent_)

\* two names equal up to the case of their letters
Letter(ch) ==
  IF \E i \in 1 .. 26 : Lower[i] = ch \/ Upper[i] = ch
  THEN CHOOSE i \in 1 .. 26 : Lower[i] = ch \/ Upper[i] = ch
  ELSE 0
SameNameIgnoringCase(a, b) ==
  /\ Len(a) = Len(b)
  /\ \A i \in 1 .. Len(a) : a[i] = b[i] \/ (Letter(a[i]) # 0 /\ Letter(a[i]) = Letter(b[i]))

\* C1: in every reachable state the sizes of the files in the tree add up to
\* at most the capacity of the partition.
C1_TotalWithinCapacity == TrueSize(heap, Instance) <= Capacity

\* C2: in every reachable state getSize() of every folder, the partition
\* included, returns the true sum of the sizes of the files in its subtree.
C2_GetSizeIsTrueSum ==
  \A f \in Folders(heap) : Returned(heap, f) = TrueSize(heap, f)

\* the inputs the properties range over
AllSizes == FileSizes \cup { Capacity }

\* the children of folder f whose name is n up to case
Matches(h, f, n) ==
  { c \in Range(h[f].children_) : SameNameIgnoringCase(h[c].name_, n) }

\* the outcomes of the three creating calls on folder this with name n
Creations(this, n) ==
  { Folder_createFile(heap, count, this, n, size) : size \in AllSizes }
    \cup { Folder_createFolder(heap, count, this, n) }
    \cup { Folder_createShortcut(heap, count, this, n, t) : t \in DOMAIN heap }

\* the same elements with the same names, kinds, sizes, parents, children and
\* targets (the size caches apart)
SameTree(h1, h2) ==
  /\ DOMAIN h1 = DOMAIN h2
  /\ \A p \in DOMAIN h1 :
       [h1[p] EXCEPT !.computedSize_ = nullopt] = [h2[p] EXCEPT !.computedSize_ = nullopt]

\* C3: no folder has two children whose names are equal up to case, and a
\* createFile, createFolder or createShortcut whose name matches a child of the
\* folder up to case throws "already exists" and adds nothing.
C3_UniqueSiblingNames ==
  /\ \A f \in Folders(heap) : \A c1, c2 \in Range(heap[f].children_) :
       c1 # c2 => ~ SameNameIgnoringCase(heap[c1].name_, heap[c2].name_)
  /\ \A this \in Folders(heap), n \in Names :
       Matches(heap, this, n) # {} =>
         \A r \in Creations(this, n) :
           r.thrown = "already exists." /\ SameTree(heap, r.heap)

C3_DuplicateRefused ==
  /\ exception = "already exists."
  /\ \E f \in Folders(heap) : heap[f].children_ # <<>>

\* C4: a live shortcut either holds its target, which is then in the tree and
\* whose absolute name it displays, or has expired and displays "inexisting
\* element"; removeElement expires exactly the shortcuts whose target leaves
\* the tree (erased itself or below the erased folder), no other call expires
\* or revives a shortcut, a new shortcut holds the target it was given, and a
\* shortcut to the partition resolves for ever.
Shortcuts(h) == { e \in DOMAIN h : h[e].type = "Shortcut" }

C4_ResolvesWhileTargetInTree ==
  /\ \A s \in Shortcuts(heap) :
       /\ heap[s].target_ \subseteq Tree(heap)
       /\ \A t \in heap[s].target_ :
            Shortcut_onElementDisplayed(heap, s) = << " --> " >> \o getAbsoluteName(heap, t)
       /\ heap[s].target_ = {} =>
            Shortcut_onElementDisplayed(heap, s) = << " --> ", "inexisting element" >>
  /\ \A this \in Folders(heap), n \in Names :
       LET r == Folder_removeElement(heap, count, this, n)
       IN  \A s \in Shortcuts(heap) \cap DOMAIN r.heap :
             r.heap[s].target_ = heap[s].target_ \cap Tree(r.heap)
  /\ \A this \in Folders(heap), n \in Names : \A r \in Creations(this, n) :
       \A s \in Shortcuts(heap) : r.heap[s].target_ = heap[s].target_
  /\ \A this \in Folders(heap), n \in Names, t \in DOMAIN heap :
       LET r == Folder_createShortcut(heap, count, this, n, t)
       IN  r.thrown = NoException =>
             \A s \in DOMAIN r.heap \ DOMAIN heap : r.heap[s].target_ = { t }
  /\ \A f \in Folders(heap) :
       \A s \in Shortcuts(heap) : getSize(heap, f).heap[s].target_ = heap[s].target_

C4_DanglingShortcutDisplayed ==
  /\ out = << " --> ", "inexisting element" >>
  /\ \E s \in Shortcuts(heap) : heap[s].target_ = {}

\* C5: from any reachable state, removing a file from a folder and creating
\* a file of the same name and size in that folder again leaves getSize() of
\* the folder and of each of its ancestors equal to the true total of its
\* subtree.
C5_ReAddRecomputesSizes ==
  \A this \in Folders(heap) : \A c \in Range(heap[this].children_) :
    heap[c].type = "File" =>
      LET r1 == Folder_removeElement(heap, count, this, heap[c].name_)
          r2 == Folder_createFile(r1.heap, r1.count, this, heap[c].name_, heap[c].size_)
      IN  r2.thrown = NoException =>
            \A a \in Ancestors(r2.heap, this) : Returned(r2.heap, a) = TrueSize(r2.heap, a)

\* C6: a call that throws (empty name, existing name, removal of a missing
\* name, capacity overflow) leaves every folder's children, every getSize()
\* value and the instance counts as they were.
Throwing(r) == r.thrown \notin { NoException, BadAlloc }

C6_FailedCallChangesNothing ==
  \A this \in Folders(heap), n \in Names :
    \A r \in Creations(this, n) \cup { Folder_removeElement(heap, count, this, n) } :
      Throwing(r) =>
        /\ SameTree(heap, r.heap)
        /\ \A f \in Folders(heap) : Returned(r.heap, f) = Returned(heap, f)
        /\ r.count = count

\* C7: the instance counts equal the numbers of elements in the tree: files,
\* shortcuts, folders (the partition included), and elements as their sum.
KindCount(h, kinds) == Cardinality({ e \in Tree(h) : h[e].type \in kinds })

C7_CountsMatchTree ==
  /\ count.File = KindCount(heap, { "File" })
  /\ count.Shortcut = KindCount(heap, { "Shortcut" })
  /\ count.Folder = KindCount(heap, { "Folder", "Partition" })
  /\ count.Element = count.File + count.Folder + count.Shortcut
  /\ Tree(heap) = DOMAIN heap

C7_FailedFileCreationCounted ==
  /\ exception = "capacity overflow."
  /\ count.File >= 1

\* C8: getSize() of a shortcut is 0 whatever its target; createShortcut never
\* throws "capacity overflow", succeeds for a non-empty name free among the
\* siblings, and on success leaves getSize() of every folder as it was.
C8_ShortcutHasNoSize ==
  /\ \A s \in Shortcuts(heap) : Returned(heap, s) = 0
  /\ \A this \in Folders(heap), n \in Names, t \in DOMAIN heap :
       LET r == Folder_createShortcut(heap, count, this, n, t)
       IN  /\ r.thrown # "capacity overflow."
           /\ (n # <<>> /\ Matches(heap, this, n) = {}) =>
                r.thrown \in { NoException, BadAlloc }
           /\ r.thrown = NoException =>
                \A f \in Folders(heap) : Returned(r.heap, f) = Returned(heap, f)

C8_ShortcutToFileInFullPartition ==
  /\ exception = NoException
  /\ TrueSize(heap, Instance) = Capacity
  /\ \E s \in Shortcuts(heap) : \E t \in heap[s].target_ :
       heap[t].type = "File" /\ heap[t].size_ > 0

\* C9: a removeElement(n) on folder F that does not throw removes the one
\* child of F whose name is n up to case and the whole subtree of that child,
\* and nothing else: every other element keeps its name, kind, size, parent
\* and children, and a shortcut changes only by expiring when its target was
\* in the removed subtree.
C9_RemoveErasesOneSubtree ==
  \A this \in Folders(heap), n \in Names :
    LET r == Folder_removeElement(heap, count, this, n)
        gone == UNION { Subtree(heap, c) : c \in Matches(heap, this, n) }
    IN  r.thrown = NoException =>
          /\ Cardinality(Matches(heap, this, n)) = 1
          /\ DOMAIN r.heap = DOMAIN heap \ gone
          /\ \A p \in DOMAIN r.heap :
               [r.heap[p] EXCEPT !.computedSize_ = nullopt] =
               [heap[p] EXCEPT
                  !.computedSize_ = nullopt,
                  !.target_ = @ \ gone,
                  !.children_ = [ k \in { x \in DOMAIN @ : @[x] \notin gone } |-> @[k] ]]

C9_FolderWithContentsRemoved ==
  /\ exception = NoException
  /\ erased.type = "Folder"
  /\ erased.children_ # <<>>
  /\ \E s \in Shortcuts(heap) : heap[s].target_ = {}

\* C10: a createFile with a non-empty name free among the siblings and a size
\* of at most the capacity less the true total of the file sizes does not
\* throw and adds a file of that name and size to the folder.
C10_FittingFileAdmitted ==
  \A this \in Folders(heap), n \in Names, size \in AllSizes :
    ( /\ n # <<>>
      /\ Matches(heap, this, n) = {}
      /\ size <= Capacity - TrueSize(heap, Instance) ) =>
      LET r == Folder_createFile(heap, count, this, n, size)
      IN  /\ r.thrown \in { NoException, BadAlloc }
          /\ r.thrown = NoException =>
               \E e \in Range(r.heap[this].children_) \ DOMAIN heap :
                 /\ r.heap[e].type = "File"
                 /\ r.heap[e].name_ = n
                 /\ r.heap[e].size_ = size
                 /\ DOMAIN r.heap = DOMAIN heap \cup { e }

C10_ExactFitAdmitted ==
  /\ exception = NoException
  /\ TrueSize(heap, Instance) = Capacity
  /\ Cardinality({ e \in Files(heap) : heap[e].size_ > 0 }) = 2

\* C11: a size a folder holds in its cache is never more than the true sum of
\* the sizes of the files now in the folder's subtree.
C11_CacheNeverOverestimates ==
  \A f \in Folders(heap) : \A v \in heap[f].computedSize_ : v <= TrueSize(heap, f)

C11_CacheKeptAcrossRemoval ==
  /\ exception = NoException
  /\ erased.type = "File"
  /\ erased.size_ > 0
  /\ \E f \in Folders(heap) : \E v \in heap[f].computedSize_ :
       v > 0 /\ v = TrueSize(heap, f)

\* C12: whenever the capacity check of a createFile runs (the name is not
\* empty and is free in the folder), the partition size it reads is at most
\* the capacity, so that capacity_ - getSize() does not wrap around.
SizeReadByCheck(h, this, size) ==
  getSize(IF size # 0 THEN invalidateSize(h, this) ELSE h, Instance).size

C12_CheckReadsAtMostCapacity ==
  \A this \in Folders(heap), n \in Names, size \in AllSizes :
    (n # <<>> /\ Matches(heap, this, n) = {}) =>
      SizeReadByCheck(heap, this, size) <= Capacity

\* C13: a shortcut whose target has left the tree does not resolve after any
\* further call, in particular not after an element of the same name is
\* created in the folder the target was in: it goes on displaying
\* "inexisting element".
Dangling(h, s) == h[s].target_ \cap Tree(h) = {}

C13_DanglingStaysDangling ==
  \A s \in Shortcuts(heap) :
    Dangling(heap, s) =>
      \A this \in Folders(heap), n \in Names :
        \A r \in Creations(this, n)
                   \cup { Folder_removeElement(heap, count, this, n) }
                   \cup { getSize(heap, this) } :
          s \in DOMAIN r.heap =>
            /\ lock(r.heap, r.heap[s].target_) = nullptr
            /\ Shortcut_onElementDisplayed(r.heap, s) = << " --> ", "inexisting element" >>

\* the target has just been erased, its name is free again in its folder,
\* and the shortcut to it is still there
C13_TargetJustErased ==
  /\ exception = NoException
  /\ erased.type # "None"
  /\ IsFolder(heap, erased.parent_)
  /\ Matches(heap, erased.parent_, erased.name_) = {}
  /\ \E s \in Shortcuts(heap) : heap[s].target_ = {}

\* C14: a createFile of size 0 with a non-empty name free among the siblings
\* does not throw, whatever the partition holds, and leaves getSize() of
\* every folder as it was; so does a createFolder that does not throw.
C14_EmptyFileAndFolderWeighNothing ==
  \A this \in Folders(heap), n \in Names :
    LET file == Folder_createFile(heap, count, this, n, 0)
        folder == Folder_createFolder(heap, count, this, n)
    IN  /\ (n # <<>> /\ Matches(heap, this, n) = {}) =>
             file.thrown \in { NoException, BadAlloc }
        /\ \A r \in { file, folder } :
             r.thrown = NoException =>
               /\ DOMAIN r.heap # DOMAIN heap
               /\ \A f \in Folders(heap) : Returned(r.heap, f) = Returned(heap, f)

C14_EmptyFileInFullPartition ==
  /\ exception = NoException
  /\ TrueSize(heap, Instance) = Capacity
  /\ heap[Instance].computedSize_ = { Capacity }
  /\ \E e \in Files(heap) : heap[e].size_ = 0
====
